---- MODULE Spec2Model ----
(***************************************************************************)
(* Model of pyleet's test case loader (src/pyleet/testcase_loader.py) and  *)
(* of the CLI's handling of a failed load (src/pyleet/cli.py).             *)
(*                                                                         *)
(* Python values are encoded as tagged tuples, so that a list, a tuple, a  *)
(* dict and a constructed object with the same content stay different:     *)
(*   <<"int", n>>          an int                                          *)
(*   <<"none">>            None                                            *)
(*   <<"list", items>>     a list, items a sequence of values              *)
(*   <<"tuple", items>>    a tuple                                         *)
(*   <<"dict", pairs>>     a dict, pairs a sequence of <<key, value>> in   *)
(*                         insertion order, keys distinct                  *)
(*   <<"obj", T, arg>>     the object constructor T built from arg         *)
(* An exception is a record; a function that may raise returns a record    *)
(* with ok, val and err (a sequence holding the exception when ~ok).       *)
(***************************************************************************)
EXTENDS Integers, Sequences, FiniteSets, TLC

VARIABLES
    pc,        \* position of the running call
    mode,      \* which entry point is running
    exists,    \* load_test_cases: os.path.exists(file_path)
    text,      \* load_test_cases: the lines of the file as stored on disk
    content,   \* load_test_cases: f.read().strip(), as lines
    data,      \* the raw entries being normalised (data / testcases / _cases)
    idx,       \* index of the next entry of the for loop
    cases,     \* the cases list built so far
    result,    \* the value returned to the caller (a sequence holding it)
    error,     \* the exception raised to the caller (a sequence holding it)
    calls,     \* constructor invocations so far, <<key, argument>> in order
    ran,       \* names of the parsing functions that have been entered
    stderr,    \* number of writes the loader made to the console
    console,   \* messages printed by cli.main
    exitcode   \* sys.exit status of cli.main (a sequence holding it)

vars == <<pc, mode, exists, text, content, data, idx, cases, result, error,
          calls, ran, stderr, console, exitcode>>

-----------------------------------------------------------------------------
(* Bounds of the model *)

\* longest list inside a value
MaxLen == 2
\* most entries in a structured document or an in-memory list
MaxEntries == 2
\* most lines in a plain-text file
MaxLines == 5

-----------------------------------------------------------------------------
(* Python values *)

I(n) == <<"int", n>>
NoneV == <<"none">>
L(items) == <<"list", items>>
T(items) == <<"tuple", items>>
D(pairs) == <<"dict", pairs>>
Tagged(k, p) == D(<< <<k, p>> >>)
Obj(k, arg) == <<"obj", k, arg>>

Kind(v) == v[1]
Items(v) == v[2]
IsSeqValue(v) == Kind(v) \in {"list", "tuple"}

HasKey(d, k) == \E i \in 1..Len(Items(d)) : Items(d)[i][1] = k
Get(d, k) == Items(d)[CHOOSE i \in 1..Len(Items(d)) : Items(d)[i][1] = k][2]

SeqsUpTo(S, n) == UNION {[1..m -> S] : m \in 0..n}

-----------------------------------------------------------------------------
(* Exceptions *)

\* type: the exception class; msg: the fixed part of the message;
\* key, shown: the type name and the values the message interpolates;
\* cause / context: __cause__ and __context__ (a sequence holding it).
Exc(type, msg, key, shown, cause, context) ==
    [type |-> type, msg |-> msg, key |-> key, shown |-> shown,
     cause |-> cause, context |-> context]

Ok(v, cs) == [ok |-> TRUE, val |-> v, err |-> <<>>, calls |-> cs]
Raise(e, cs) == [ok |-> FALSE, val |-> NoneV, err |-> <<e>>, calls |-> cs]

-----------------------------------------------------------------------------
(* The constructor registry (pyleet.datastructures, outside src/) *)

\* type names with a registered deserializer
Registered == {"ListNode", "Tup"}

get_deserializer(key) == key \in Registered

\* deserializer(arg): ListNode builds an object from any payload but a bare
\* int or None; Tup returns the tuple of a list's or tuple's items; each
\* raises TypeError on the payloads it does not take.
Construct(key, arg) ==
    IF key = "Tup" THEN
        IF IsSeqValue(arg) THEN Ok(T(Items(arg)), <<>>)
        ELSE Raise(Exc("TypeError", "payload is not iterable", key, <<arg>>, <<>>, <<>>), <<>>)
    ELSE
        IF Kind(arg) \notin {"int", "none"} THEN Ok(Obj(key, arg), <<>>)
        ELSE Raise(Exc("TypeError", "payload is not iterable", key, <<arg>>, <<>>, <<>>), <<>>)

-----------------------------------------------------------------------------
(* _deserialize_recursive *)

RECURSIVE _deserialize_recursive(_)
RECURSIVE DeserializeItems(_)
RECURSIVE DeserializePairs(_)

\* [_deserialize_recursive(elem) for elem in item]: left to right, the first
\* exception ends the comprehension.
DeserializeItems(items) ==
    IF items = <<>> THEN Ok(<<>>, <<>>)
    ELSE LET h == _deserialize_recursive(Head(items)) IN
         IF ~h.ok THEN h
         ELSE LET t == DeserializeItems(Tail(items)) IN
              IF ~t.ok THEN Raise(t.err[1], h.calls \o t.calls)
              ELSE Ok(<<h.val>> \o t.val, h.calls \o t.calls)

\* {k: _deserialize_recursive(v) for k, v in item.items()}
DeserializePairs(pairs) ==
    IF pairs = <<>> THEN Ok(<<>>, <<>>)
    ELSE LET h == _deserialize_recursive(Head(pairs)[2]) IN
         IF ~h.ok THEN h
         ELSE LET t == DeserializePairs(Tail(pairs)) IN
              IF ~t.ok THEN Raise(t.err[1], h.calls \o t.calls)
              ELSE Ok(<< <<Head(pairs)[1], h.val>> >> \o t.val, h.calls \o t.calls)

\* DeserializeTagged with the constructor called on the payload as written
DeserializeTagged_RawPayload(key, payload) ==
    LET c == Construct(key, payload)
        cs == << <<key, payload>> >>
    IN IF c.ok THEN Ok(c.val, cs)
       ELSE Raise(Exc("ValueError", "Error deserializing type", key,
                      <<payload>>, c.err, c.err), cs)

\* DeserializeTagged with the reconstructed payload in the error message
DeserializeTagged_ShowsReconstructed(key, payload) ==
    LET d == _deserialize_recursive(payload) IN
    IF ~d.ok THEN d
    ELSE LET c == Construct(key, d.val)
             cs == d.calls \o << <<key, d.val>> >>
         IN IF c.ok THEN Ok(c.val, cs)
            ELSE Raise(Exc("ValueError", "Error deserializing type", key,
                           <<d.val>>, c.err, c.err), cs)

\* the branch taken for {key: payload} when a deserializer is registered
DeserializeTagged(key, payload) ==
    LET d == _deserialize_recursive(payload) IN
    IF ~d.ok THEN d
    ELSE LET c == Construct(key, d.val)
             cs == d.calls \o << <<key, d.val>> >>
         IN IF c.ok THEN Ok(c.val, cs)
            ELSE Raise(Exc("ValueError", "Error deserializing type", key,
                           <<payload>>, c.err, c.err), cs)

\* _deserialize_recursive without the len(item) == 1 test: any mapping whose
\* first key is registered is taken for a tagged one
DeserializeAnyRegisteredKey(item) ==
    IF Kind(item) = "dict" THEN
        IF Len(Items(item)) >= 1 /\ get_deserializer(Items(item)[1][1])
        THEN DeserializeTagged(Items(item)[1][1], Items(item)[1][2])
        ELSE LET r == DeserializePairs(Items(item)) IN
             IF r.ok THEN Ok(D(r.val), r.calls) ELSE r
    ELSE IF Kind(item) = "list" THEN
        LET r == DeserializeItems(Items(item)) IN
        IF r.ok THEN Ok(L(r.val), r.calls) ELSE r
    ELSE IF Kind(item) = "tuple" THEN
        LET r == DeserializeItems(Items(item)) IN
        IF r.ok THEN Ok(T(r.val), r.calls) ELSE r
    ELSE Ok(item, <<>>)

_deserialize_recursive(item) ==
    IF Kind(item) = "dict" THEN
        IF Len(Items(item)) = 1 /\ get_deserializer(Items(item)[1][1])
        THEN DeserializeTagged(Items(item)[1][1], Items(item)[1][2])
        ELSE LET r == DeserializePairs(Items(item)) IN
             IF r.ok THEN Ok(D(r.val), r.calls) ELSE r
    ELSE IF Kind(item) = "list" THEN
        LET r == DeserializeItems(Items(item)) IN
        IF r.ok THEN Ok(L(r.val), r.calls) ELSE r
    ELSE IF Kind(item) = "tuple" THEN
        LET r == DeserializeItems(Items(item)) IN
        IF r.ok THEN Ok(T(r.val), r.calls) ELSE r
    ELSE Ok(item, <<>>)

-----------------------------------------------------------------------------
(* Entry normalisation: the loop bodies of process_test_cases and          *)
(* _parse_json_cases                                                       *)

MissingKeys(entry) ==
    Exc("ValueError", "Test case dict missing 'input' or 'expected'", "",
        <<entry>>, <<>>, <<>>)
InvalidEntry(entry) ==
    Exc("ValueError", "Invalid test case entry", "", <<entry>>, <<>>, <<>>)

Fields(a, e) == [ok |-> TRUE, input |-> a, expected |-> e, err |-> <<>>]
NoFields(e) == [ok |-> FALSE, input |-> NoneV, expected |-> NoneV, err |-> <<e>>]

\* the if/elif chain of _parse_json_cases
JsonEntryFields(entry) ==
    IF Kind(entry) = "dict" THEN
        IF ~HasKey(entry, "input") \/ ~HasKey(entry, "expected")
        THEN NoFields(MissingKeys(entry))
        ELSE Fields(Get(entry, "input"), Get(entry, "expected"))
    ELSE IF Kind(entry) = "list" /\ Len(Items(entry)) = 2
    THEN Fields(Items(entry)[1], Items(entry)[2])
    ELSE NoFields(InvalidEntry(entry))

\* the if/elif chain of process_test_cases
ProcessEntryFields(entry) ==
    IF Kind(entry) = "tuple" /\ Len(Items(entry)) = 2
    THEN Fields(Items(entry)[1], Items(entry)[2])
    ELSE JsonEntryFields(entry)

\* WrapInput with the single input left bare: (x) for (x,)
WrapInput_NoComma(r) ==
    IF Kind(r) = "tuple" THEN r
    ELSE IF Kind(r) = "list" THEN T(Items(r))
    ELSE r

\* WrapInput with a list wrapped like a single input
WrapInput_ListAsOne(r) ==
    IF Kind(r) = "tuple" THEN r ELSE T(<<r>>)

\* "Ensure input_args is a tuple for the runner"
WrapInput(r) ==
    IF Kind(r) = "tuple" THEN r
    ELSE IF Kind(r) = "list" THEN T(Items(r))
    ELSE T(<<r>>)

\* deserialise both sides, input first, then wrap the input
BuildCase(f) ==
    IF ~f.ok THEN Raise(f.err[1], <<>>)
    ELSE LET di == _deserialize_recursive(f.input) IN
         IF ~di.ok THEN di
         ELSE LET de == _deserialize_recursive(f.expected) IN
              IF ~de.ok THEN Raise(de.err[1], di.calls \o de.calls)
              ELSE Ok(T(<<WrapInput(di.val), de.val>>), di.calls \o de.calls)

JsonCase(entry) == BuildCase(JsonEntryFields(entry))
ProcessCase(entry) == BuildCase(ProcessEntryFields(entry))

-----------------------------------------------------------------------------
(* File text.  A file is a sequence of lines; a line is a marker line, a    *)
(* blank line, a line holding the JSON text of one value, or a line that   *)
(* is neither.  json.loads is the library's parser: it returns the value a *)
(* JSON line holds and raises JSONDecodeError on anything else.            *)

InputMarker == <<"marker", "input:">>
OutputMarker == <<"marker", "output:">>
Blank == <<"blank">>
Junk == <<"junk">>
J(v) == <<"json", v>>

JSONDecodeError == Exc("JSONDecodeError", "Expecting value", "", <<>>, <<>>, <<>>)

\* json.loads(ln) for one line
JsonLoadsLine(ln) ==
    IF ln[1] = "json" THEN Ok(ln[2], <<>>) ELSE Raise(JSONDecodeError, <<>>)

\* json.loads(content): one JSON document and nothing else
JsonLoads(lines) ==
    IF Len(lines) = 1 THEN JsonLoadsLine(lines[1]) ELSE Raise(JSONDecodeError, <<>>)

\* content.strip(): leading and trailing blank lines go
RECURSIVE LStrip(_)
LStrip(lines) ==
    IF lines # <<>> /\ Head(lines) = Blank THEN LStrip(Tail(lines)) ELSE lines
RECURSIVE RStrip(_)
RStrip(lines) ==
    IF lines # <<>> /\ lines[Len(lines)] = Blank
    THEN RStrip(SubSeq(lines, 1, Len(lines) - 1)) ELSE lines
Strip(lines) == RStrip(LStrip(lines))

\* content.split("\n\n"): the text is the lines joined by newlines, so a
\* blank line that is not the last one puts two newlines side by side and
\* ends the block, unless the newline before it was used up by the previous
\* separator; then it is a line of the next block.  cur is the block being
\* read, used tells whether the newline before the head is used up (or
\* absent, at the start).
RECURSIVE SplitBlocks(_, _, _)
SplitBlocks(lines, cur, used) ==
    IF lines = <<>> THEN <<cur>>
    ELSE IF Head(lines) = Blank /\ ~used /\ Tail(lines) # <<>>
         THEN <<cur>> \o SplitBlocks(Tail(lines), <<>>, TRUE)
         ELSE SplitBlocks(Tail(lines), Append(cur, Head(lines)), FALSE)

\* raw_case.splitlines(): no empty last line
SplitLines(block) ==
    IF block # <<>> /\ block[Len(block)] = Blank
    THEN SubSeq(block, 1, Len(block) - 1) ELSE block

\* the inner for loop of _plain_text_input over one block; res.append is
\* looked up before its argument json.loads(ln) is evaluated
RECURSIVE ReadBlock(_, _, _, _)
ReadBlock(lines, res, input, output) ==
    IF lines = <<>> THEN Ok(L(<<L(input), L(output)>>), <<>>)
    ELSE LET ln == Head(lines) IN
         IF ln = InputMarker THEN ReadBlock(Tail(lines), "input", input, output)
         ELSE IF ln = OutputMarker THEN ReadBlock(Tail(lines), "output", input, output)
         ELSE IF res = "none"
         THEN Raise(Exc("AttributeError",
                        "'NoneType' object has no attribute 'append'",
                        "", <<>>, <<>>, <<>>), <<>>)
         ELSE LET v == JsonLoadsLine(ln) IN
              IF ~v.ok THEN v
              ELSE IF res = "input"
              THEN ReadBlock(Tail(lines), res, Append(input, v.val), output)
              ELSE ReadBlock(Tail(lines), res, input, Append(output, v.val))

\* the outer for loop: _cases, or the first exception
RECURSIVE ReadBlocks(_)
ReadBlocks(blocks) ==
    IF blocks = <<>> THEN Ok(<<>>, <<>>)
    ELSE LET h == ReadBlock(SplitLines(Head(blocks)), "none", <<>>, <<>>) IN
         IF ~h.ok THEN h
         ELSE LET t == ReadBlocks(Tail(blocks)) IN
              IF ~t.ok THEN t ELSE Ok(<<h.val>> \o t.val, <<>>)

\* [[input, output[0]] for [input, output] in _cases]
RECURSIVE FirstOutputs(_)
FirstOutputs(cs) ==
    IF cs = <<>> THEN Ok(<<>>, <<>>)
    ELSE LET input == Items(Head(cs))[1]
             output == Items(Head(cs))[2]
         IN IF Items(output) = <<>>
            THEN Raise(Exc("IndexError", "list index out of range", "",
                           <<>>, <<>>, <<>>), <<>>)
            ELSE LET t == FirstOutputs(Tail(cs)) IN
                 IF ~t.ok THEN t
                 ELSE Ok(<<L(<<input, Items(output)[1]>>)>> \o t.val, <<>>)

\* _cases when the outer loop ends
PlainCases(lines) == ReadBlocks(SplitBlocks(lines, <<>>, TRUE))

_plain_text_input(lines) ==
    LET c == PlainCases(lines) IN
    IF ~c.ok THEN c
    ELSE LET r == FirstOutputs(c.val) IN
         IF ~r.ok THEN r ELSE Ok(L(r.val), <<>>)

\* isinstance(e, cls) for the exception classes that occur
IsInstance(e, cls) ==
    \/ e.type = cls
    \/ cls = "Exception"
    \/ cls = "ValueError" /\ e.type = "JSONDecodeError"

-----------------------------------------------------------------------------
(* Inputs *)

Atoms == {I(1), I(2)}
FlatLists == {L(s) : s \in SeqsUpTo(Atoms, MaxLen)}
TagNames == Registered \cup {"Bogus"}

\* payloads a constructor accepts (lists) and rejects (an int)
Payloads == {I(1), L(<<>>), L(<<I(1)>>)}
Tagged1 == {Tagged(k, p) : k \in TagNames, p \in Atoms \cup FlatLists}
Tagged2 == {Tagged(k, Tagged(k2, p)) : k \in TagNames, k2 \in TagNames, p \in Payloads}
Elems == {I(1)} \cup {Tagged(k, p) : k \in TagNames, p \in {I(1), L(<<I(1)>>)}}
MixedLists == {L(s) : s \in SeqsUpTo(Elems, MaxLen)}
TaggedLists == {Tagged(k, l) : k \in TagNames, l \in MixedLists}
TwoKeys == {D(<< <<"ListNode", x>>, <<"Bogus", y>> >>) : x \in Elems, y \in Elems}
Tuples == {T(s) : s \in SeqsUpTo({I(1), Tagged("ListNode", L(<<I(1)>>)), Tagged("Tup", I(1))}, MaxLen)}

\* values handed to _deserialize_recursive
DeepValues ==
    Atoms \cup FlatLists \cup Tagged1 \cup Tagged2 \cup MixedLists
          \cup TaggedLists \cup TwoKeys \cup Tuples

\* values JSON text can hold: no tuples
JsonValues == DeepValues \ Tuples

Expecteds == {I(1), Tagged("ListNode", L(<<I(1)>>)), Tagged("ListNode", I(1))}

Record(a, e) == D(<< <<"input", a>>, <<"expected", e>> >>)

\* one entry, any input value
RichJsonEntries ==
    {Record(a, e) : a \in JsonValues, e \in Expecteds}
        \cup {L(<<a, e>>) : a \in JsonValues, e \in Expecteds}
RichProcessEntries ==
    {T(<<a, e>>) : a \in DeepValues, e \in Expecteds}
        \cup {Record(a, I(1)) : a \in Tuples} \cup {L(<<a, I(1)>>) : a \in Tuples}

\* entries for lists of several: accepted ones, ones whose constructor
\* raises, and malformed ones
SmallInputs ==
    {I(1), L(<<>>), L(<<I(1), I(2)>>), Tagged("Tup", L(<<>>)), Tagged("ListNode", I(1))}
Malformed ==
    {D(<< <<"input", I(1)>> >>), D(<< <<"expected", I(1)>> >>),
     L(<<I(1)>>), I(1), Tagged("ListNode", L(<<>>))}
SmallJsonEntries ==
    {Record(a, I(1)) : a \in SmallInputs} \cup {L(<<a, I(1)>>) : a \in SmallInputs}
        \cup Malformed
SmallProcessEntries ==
    SmallJsonEntries \cup {T(<<a, I(1)>>) : a \in SmallInputs} \cup {T(<<I(1)>>)}

\* structured documents: lists of entries, and values that are no list
JsonDocs ==
    {L(s) : s \in SeqsUpTo(SmallJsonEntries, MaxEntries)}
        \cup {L(<<e>>) : e \in RichJsonEntries}
        \cup {Record(I(1), I(1)), NoneV}

\* arguments of process_test_cases
ProcessInputs ==
    {L(s) : s \in SeqsUpTo(SmallProcessEntries, MaxEntries)}
        \cup {L(<<e>>) : e \in RichProcessEntries}
        \cup {T(<<T(<<I(1), I(1)>>)>>), Record(I(1), I(1))}

\* A fixture: a sequence of cases, each a list of input values and one
\* expected value.
FxValues == {I(1), I(2), I(3), Tagged("ListNode", L(<<I(1)>>))}
Case(ins, e) == [inputs |-> ins, expected |-> e]
RichCases == {Case(ins, e) : ins \in SeqsUpTo(FxValues, MaxLen), e \in FxValues}
SmallCases == {Case(<<I(1)>>, I(1)), Case(<<Tagged("ListNode", L(<<I(1)>>))>>, I(2))}
Fixtures ==
    {<<c>> : c \in RichCases} \cup (SeqsUpTo(SmallCases, MaxEntries) \ {<<>>})

\* the structured encoding: [{"input": [...], "expected": ...}, ...]
EncodeJson(fx) ==
    << J(L([i \in 1..Len(fx) |-> Record(L(fx[i].inputs), fx[i].expected)])) >>

\* the annotated encoding: input: / values / output: / value, blocks
\* separated by a blank line
RECURSIVE EncodeAnnotated(_)
EncodeAnnotated(fx) ==
    LET c == Head(fx)
        block == <<InputMarker>> \o [i \in 1..Len(c.inputs) |-> J(c.inputs[i])]
                     \o <<OutputMarker, J(c.expected)>>
    IN IF Tail(fx) = <<>> THEN block
       ELSE block \o <<Blank>> \o EncodeAnnotated(Tail(fx))

LineAlphabet ==
    {InputMarker, OutputMarker, Blank, Junk, J(I(1)), J(Tagged("ListNode", L(<<I(1)>>)))}

FileTexts ==
    SeqsUpTo(LineAlphabet, MaxLines)
        \cup {<<J(d)>> : d \in JsonDocs}
        \cup {EncodeJson(fx) : fx \in Fixtures}
        \cup {EncodeAnnotated(fx) : fx \in Fixtures}

-----------------------------------------------------------------------------
Init ==
    /\ pc = "idle"
    /\ mode = "none"
    /\ exists = FALSE
    /\ text = <<>>
    /\ content = <<>>
    /\ data = NoneV
    /\ idx = 1
    /\ cases = <<>>
    /\ result = <<>>
    /\ error = <<>>
    /\ calls = <<>>
    /\ ran = {}
    /\ stderr = 0
    /\ console = <<>>
    /\ exitcode = <<>>

(* A direct call of _deserialize_recursive(item) *)
CallDeserialize ==
    /\ pc = "idle"
    /\ \E item \in DeepValues :
        LET r == _deserialize_recursive(item) IN
        /\ mode' = "deserialize"
        /\ data' = item
        /\ calls' = r.calls
        /\ result' = IF r.ok THEN <<r.val>> ELSE <<>>
        /\ error' = r.err
        /\ pc' = IF r.ok THEN "returned" ELSE "raised"
    /\ ran' = {"_deserialize_recursive"}
    /\ UNCHANGED <<exists, text, content, idx, cases, stderr, console, exitcode>>

(* process_test_cases(testcases): the isinstance check *)
CallProcess ==
    /\ pc = "idle"
    /\ \E testcases \in ProcessInputs :
        /\ data' = testcases
        /\ IF Kind(testcases) # "list"
           THEN /\ pc' = "raised"
                /\ error' = <<Exc("ValueError", "Test cases must be provided as a list",
                                  "", <<>>, <<>>, <<>>)>>
           ELSE /\ pc' = "process_loop"
                /\ error' = <<>>
    /\ mode' = "process"
    /\ ran' = {"process_test_cases"}
    /\ idx' = 1
    /\ cases' = <<>>
    /\ UNCHANGED <<exists, text, content, result, calls, stderr, console, exitcode>>

(* process_test_cases: one iteration of the for loop *)
ProcessEntry ==
    /\ pc = "process_loop"
    /\ idx <= Len(Items(data))
    /\ LET c == ProcessCase(Items(data)[idx]) IN
        /\ calls' = calls \o c.calls
        /\ IF c.ok
           THEN /\ cases' = Append(cases, c.val)
                /\ idx' = idx + 1
                /\ UNCHANGED <<pc, error>>
           ELSE /\ pc' = "raised"
                /\ error' = c.err
                /\ UNCHANGED <<cases, idx>>
    /\ UNCHANGED <<mode, exists, text, content, data, result, ran, stderr,
                   console, exitcode>>

(* process_test_cases: return cases *)
ProcessReturn ==
    /\ pc = "process_loop"
    /\ idx > Len(Items(data))
    /\ result' = <<L(cases)>>
    /\ pc' = "returned"
    /\ UNCHANGED <<mode, exists, text, content, data, idx, cases, error, calls,
                   ran, stderr, console, exitcode>>

(* load_test_cases(file_path): the existence check and the read *)
CallLoad ==
    /\ pc = "idle"
    /\ mode' = "load"
    /\ ran' = {"load_test_cases"}
    /\ \E e \in BOOLEAN, t \in FileTexts :
        /\ exists' = e
        /\ text' = IF e THEN t ELSE <<>>
        /\ IF ~e
           THEN /\ pc' = "raised"
                /\ error' = <<Exc("FileNotFoundError", "Test case file not found",
                                  "", <<>>, <<>>, <<>>)>>
                /\ content' = <<>>
           ELSE /\ pc' = "try_json"
                /\ error' = <<>>
                /\ content' = Strip(t)
    /\ UNCHANGED <<data, idx, cases, result, calls, stderr, console, exitcode>>

\* AfterJsonFailure with except ValueError for except json.JSONDecodeError
AfterJsonFailure_AnyValueError(e) ==
    IF IsInstance(e, "ValueError") THEN "plain" ELSE "raised"

\* what load_test_cases does with an exception e that leaves the first try
\* block: except json.JSONDecodeError: pass
AfterJsonFailure(e) == IF IsInstance(e, "JSONDecodeError") THEN "plain" ELSE "raised"

(* load_test_cases: json.loads(content) and the entry of _parse_json_cases *)
LoadTryJson ==
    /\ pc = "try_json"
    /\ LET j == JsonLoads(content) IN
       IF ~j.ok
       THEN /\ pc' = AfterJsonFailure(j.err[1])
            /\ error' = IF AfterJsonFailure(j.err[1]) = "raised" THEN j.err ELSE <<>>
            /\ ran' = ran \cup {"json.loads"}
            /\ UNCHANGED data
       ELSE /\ data' = j.val
            /\ ran' = ran \cup {"json.loads", "_parse_json_cases"}
            /\ IF Kind(j.val) # "list"
               THEN LET e == Exc("ValueError",
                                 "JSON test case file must contain a list of test cases",
                                 "", <<>>, <<>>, <<>>)
                    IN /\ pc' = AfterJsonFailure(e)
                       /\ error' = IF AfterJsonFailure(e) = "raised" THEN <<e>> ELSE <<>>
               ELSE /\ pc' = "json_loop"
                    /\ error' = <<>>
    /\ idx' = 1
    /\ cases' = <<>>
    /\ UNCHANGED <<mode, exists, text, content, result, calls, stderr, console,
                   exitcode>>

\* ParseJsonEntry with a failing entry skipped instead of raised
ParseJsonEntry_SkipsFailures ==
    /\ pc = "json_loop"
    /\ idx <= Len(Items(data))
    /\ LET c == BuildCase(JsonEntryFields(Items(data)[idx])) IN
        /\ calls' = calls \o c.calls
        /\ cases' = IF c.ok THEN Append(cases, c.val) ELSE cases
        /\ idx' = idx + 1
        /\ UNCHANGED <<pc, error>>
    /\ UNCHANGED <<mode, exists, text, content, data, result, ran, stderr,
                   console, exitcode>>

(* _parse_json_cases: one iteration of the for loop *)
ParseJsonEntry ==
    /\ pc = "json_loop"
    /\ idx <= Len(Items(data))
    /\ LET c == JsonCase(Items(data)[idx]) IN
        /\ calls' = calls \o c.calls
        /\ IF c.ok
           THEN /\ cases' = Append(cases, c.val)
                /\ idx' = idx + 1
                /\ UNCHANGED <<pc, error>>
           ELSE /\ pc' = AfterJsonFailure(c.err[1])
                /\ error' = IF AfterJsonFailure(c.err[1]) = "raised" THEN c.err ELSE <<>>
                /\ UNCHANGED <<cases, idx>>
    /\ UNCHANGED <<mode, exists, text, content, data, result, ran, stderr,
                   console, exitcode>>

(* _parse_json_cases: return cases, returned by load_test_cases *)
ParseJsonReturn ==
    /\ pc = "json_loop"
    /\ idx > Len(Items(data))
    /\ result' = <<L(cases)>>
    /\ pc' = "returned"
    /\ UNCHANGED <<mode, exists, text, content, data, idx, cases, error, calls,
                   ran, stderr, console, exitcode>>

(* load_test_cases: the fallback, _plain_text_input(content); on any       *)
(* exception traceback.print_exc() and raise Exception("Invalid file")     *)
LoadPlain ==
    /\ pc = "plain"
    /\ ran' = ran \cup {"_plain_text_input"}
    /\ data' = IF PlainCases(content).ok THEN L(PlainCases(content).val) ELSE data
    /\ LET r == _plain_text_input(content) IN
       IF r.ok
       THEN /\ result' = <<r.val>>
            /\ pc' = "returned"
            /\ UNCHANGED <<error, stderr>>
       ELSE /\ stderr' = stderr + 1
            /\ error' = <<Exc("Exception", "Invalid file", "", <<>>, <<>>, r.err)>>
            /\ pc' = "raised"
            /\ UNCHANGED result
    /\ UNCHANGED <<mode, exists, text, content, idx, cases, calls, console,
                   exitcode>>

(* cli.main: except Exception as e: print(...); sys.exit(1) *)
MainExcept ==
    /\ pc = "raised"
    /\ mode = "load"
    /\ console' = Append(console, <<"Error loading test cases", error[1].msg>>)
    /\ exitcode' = <<1>>
    /\ pc' = "exited"
    /\ UNCHANGED <<mode, exists, text, content, data, idx, cases, result, error,
                   calls, ran, stderr>>

Next ==
    \/ CallDeserialize
    \/ CallProcess
    \/ ProcessEntry
    \/ ProcessReturn
    \/ CallLoad
    \/ LoadTryJson
    \/ ParseJsonEntry
    \/ ParseJsonReturn
    \/ LoadPlain
    \/ MainExcept

Spec == Init /\ [][Next]_vars
-----------------------------------------------------------------------------
(* Helpers of the properties *)

Returned == pc = "returned"
Failed == pc \in {"raised", "exited"}

\* the run is inside (or past) a normaliser loop over the list data
InJsonLoop == mode = "load" /\ "_parse_json_cases" \in ran /\ Kind(data) = "list"
InProcessLoop == mode = "process" /\ Kind(data) = "list"
Normalising == InJsonLoop \/ InProcessLoop
InPlain == mode = "load" /\ "_plain_text_input" \in ran

\* what the loop body makes of entry i of data
EntryFieldsAt(i) ==
    IF mode = "process" THEN ProcessEntryFields(Items(data)[i])
    ELSE JsonEntryFields(Items(data)[i])
EntryCaseAt(i) == BuildCase(EntryFieldsAt(i))

\* the input side and the expected side of a returned case
CaseInput(c) == Items(c)[1]
CaseExpected(c) == Items(c)[2]

\* the canonical cases of a fixture: (tuple of reconstructed inputs,
\* reconstructed expected), in order
CanonicalCases(fx) ==
    L([i \in 1..Len(fx) |->
        T(<< T([j \in 1..Len(fx[i].inputs) |->
                  _deserialize_recursive(fx[i].inputs[j]).val]),
             _deserialize_recursive(fx[i].expected).val >>)])

-----------------------------------------------------------------------------
(* C1: whenever the file holds the structured encoding or the annotated    *)
(* encoding of a fixture, load_test_cases returns the fixture's canonical  *)
(* cases, so both encodings load to the same result.                       *)
C1_DialectsLoadCanonicalCases ==
    (mode = "load" /\ exists /\ pc \in {"returned", "raised", "exited"})
        => \A fx \in Fixtures :
               text \in {EncodeJson(fx), EncodeAnnotated(fx)}
                   => result = <<CanonicalCases(fx)>>

\* the structured half of C1 alone, which the code does satisfy
StructuredLoadsCanonicalCases ==
    (mode = "load" /\ exists /\ pc \in {"returned", "raised", "exited"})
        => \A fx \in Fixtures :
               text = EncodeJson(fx) => result = <<CanonicalCases(fx)>>

-----------------------------------------------------------------------------
(* C2: every case returned by load_test_cases or process_test_cases has an *)
(* input tuple of length at least 1.                                       *)
C2_InputTupleNeverEmpty ==
    (Returned /\ mode \in {"load", "process"})
        => \A i \in 1..Len(Items(result[1])) :
               Len(Items(CaseInput(Items(result[1])[i]))) >= 1

(* C2 as amended: every returned case has an input sequence, and it has    *)
(* length at least 1 unless the entry's reconstructed input is itself an   *)
(* empty list or tuple (for the annotated dialect: unless the block has no *)
(* input value), and then it is empty.                                     *)
C2_InputTupleEmptyOnlyForEmptySequence ==
    (Returned /\ mode \in {"load", "process"})
        => \A i \in 1..Len(Items(result[1])) :
               LET inp == CaseInput(Items(result[1])[i])
                   raw == IF InPlain THEN Items(Items(data)[i])[1]
                          ELSE _deserialize_recursive(EntryFieldsAt(i).input).val
               IN /\ IsSeqValue(inp)
                  /\ (InPlain \/ Kind(inp) = "tuple")
                  /\ (Len(Items(inp)) = 0) <=> (IsSeqValue(raw) /\ Items(raw) = <<>>)

\* a structured document whose entry has the input [] has been loaded to a
\* case with the empty input tuple
C2_Witness ==
    /\ Returned /\ InJsonLoop
    /\ \E i \in 1..Len(Items(data)) :
          /\ EntryFieldsAt(i).input = L(<<>>)
          /\ CaseInput(Items(result[1])[i]) = T(<<>>)

-----------------------------------------------------------------------------
(* C3: with r the reconstruction of an accepted entry's raw input, the     *)
(* case's input tuple holds exactly the elements of r in order when r is a *)
(* list or a tuple, and is the one-element tuple (r,) otherwise.           *)
C3_InputTupleFromReconstruction ==
    Normalising
        => \A i \in 1..Len(cases) :
               LET r == _deserialize_recursive(EntryFieldsAt(i).input).val
                   inp == CaseInput(cases[i])
               IN /\ Kind(inp) = "tuple"
                  /\ IsSeqValue(r) => Items(inp) = Items(r)
                  /\ ~IsSeqValue(r) => Items(inp) = <<r>>

\* process_test_cases has returned the cases of a scalar input 1 and of a
\* list input [1, 2]: (1,) and (1, 2)
C3_Witness ==
    /\ Returned /\ InProcessLoop /\ Len(cases) = 2
    /\ EntryFieldsAt(1).input = I(1)
    /\ CaseInput(Items(result[1])[1]) = T(<<I(1)>>)
    /\ EntryFieldsAt(2).input = L(<<I(1), I(2)>>)
    /\ CaseInput(Items(result[1])[2]) = T(<<I(1), I(2)>>)

-----------------------------------------------------------------------------
\* {k: p} with k a registered type name
IsTagged(v) ==
    Kind(v) = "dict" /\ Len(Items(v)) = 1 /\ Items(v)[1][1] \in Registered
TagOf(v) == Items(v)[1][1]
PayloadOf(v) == Items(v)[1][2]

\* the value the constructor of tagged mapping v returns for the
\* reconstruction of v's payload
ConstructedFrom(v) ==
    Construct(TagOf(v), _deserialize_recursive(PayloadOf(v)).val)

\* v and every value inside it
RECURSIVE SubValues(_)
SubValues(v) ==
    {v} \cup
    IF IsSeqValue(v) THEN UNION {SubValues(Items(v)[i]) : i \in 1..Len(Items(v))}
    ELSE IF Kind(v) = "dict"
    THEN UNION {SubValues(Items(v)[i][2]) : i \in 1..Len(Items(v))}
    ELSE {}

(* C4: reconstructing {T: p} gives C(reconstruct(p)): C is invoked once    *)
(* the payload is reconstructed, as the last constructor call, on the      *)
(* reconstructed payload; two nested tags give C(C2(reconstruct(p))); and  *)
(* a tagged mapping inside a sequence or a multi-key mapping is replaced   *)
(* in place the same way.                                                  *)
C4_TaggedIsConstructorOfReconstructedPayload ==
    /\ (mode = "deserialize" /\ IsTagged(data)) =>
          (Returned <=> /\ _deserialize_recursive(PayloadOf(data)).ok
                        /\ ConstructedFrom(data).ok)
    /\ (mode = "deserialize" /\ Returned) =>
        /\ IsTagged(data) =>
              LET rp == _deserialize_recursive(PayloadOf(data)) IN
              /\ rp.ok
              /\ result = <<Construct(TagOf(data), rp.val).val>>
              /\ calls = rp.calls \o << <<TagOf(data), rp.val>> >>
        /\ (IsTagged(data) /\ IsTagged(PayloadOf(data))) =>
              LET inner == PayloadOf(data)
                  rp == _deserialize_recursive(PayloadOf(inner)).val
              IN result = <<Construct(TagOf(data), Construct(TagOf(inner), rp).val).val>>
        /\ IsSeqValue(data) =>
              \A i \in 1..Len(Items(data)) :
                  IsTagged(Items(data)[i])
                      => Items(result[1])[i] = ConstructedFrom(Items(data)[i]).val
        /\ (Kind(data) = "dict" /\ ~IsTagged(data)) =>
              \A i \in 1..Len(Items(data)) :
                  IsTagged(Items(data)[i][2])
                      => Items(result[1])[i] =
                             <<Items(data)[i][1], ConstructedFrom(Items(data)[i][2]).val>>

\* {"ListNode": {"Tup": [1]}} has been reconstructed: Tup was called on the
\* list, then ListNode on the tuple Tup returned
C4_Witness ==
    /\ mode = "deserialize" /\ Returned
    /\ data = Tagged("ListNode", Tagged("Tup", L(<<I(1)>>)))
    /\ result = <<Obj("ListNode", T(<<I(1)>>))>>
    /\ calls = << <<"Tup", L(<<I(1)>>)>>, <<"ListNode", T(<<I(1)>>)>> >>

-----------------------------------------------------------------------------
\* v holds no one-key mapping whose key is a registered type name
NoTaggedInside(v) == \A w \in SubValues(v) : ~IsTagged(w)

(* C5: a value that holds no one-key mapping with a registered key is      *)
(* returned equal to itself and no constructor is invoked; a one-key       *)
(* mapping with an unregistered key is no error.                           *)
C5_PassThroughIdentity ==
    (mode = "deserialize" /\ NoTaggedInside(data))
        => Returned /\ result = <<data>> /\ calls = <<>> /\ error = <<>>

\* the list [{"Bogus": 1}, 1], whose mapping has an unregistered key, has
\* passed through
C5_Witness ==
    /\ mode = "deserialize" /\ Returned
    /\ data = L(<<Tagged("Bogus", I(1)), I(1)>>)
    /\ result = <<data>>
    /\ calls = <<>>

-----------------------------------------------------------------------------
\* the exception _deserialize_recursive raises for a failed constructor
IsDeserializationError(e) == e.msg = "Error deserializing type"

\* the raw values the running call reconstructs
RawRoots ==
    IF mode = "deserialize" THEN {data}
    ELSE IF Normalising
    THEN UNION {{EntryFieldsAt(i).input, EntryFieldsAt(i).expected} :
                   i \in {j \in 1..Len(Items(data)) : EntryFieldsAt(j).ok}}
    ELSE {}

(* C6: when a constructor raises, the call fails with a ValueError that    *)
(* names the tag k and the raw payload p of a tagged mapping {k: p} of the *)
(* input, p as written and not as reconstructed, with the constructor's    *)
(* exception as cause; the failed call is the last constructor call (no    *)
(* enclosing constructor runs after it) and no value is returned.          *)
C6_ConstructorFailureNamesTagAndRawPayload ==
    /\ (Failed /\ IsDeserializationError(error[1])) =>
          LET e == error[1]
              last == calls[Len(calls)]
          IN /\ e.type = "ValueError"
             /\ Len(e.shown) = 1
             /\ \E root \in RawRoots : Tagged(e.key, e.shown[1]) \in SubValues(root)
             /\ e.key \in Registered
             /\ calls # <<>>
             /\ last[1] = e.key
             /\ last[2] = _deserialize_recursive(e.shown[1]).val
             /\ ~Construct(last[1], last[2]).ok
             /\ e.cause = Construct(last[1], last[2]).err
             /\ result = <<>>
    \* and every failed constructor call surfaces this way
    /\ \A i \in 1..Len(calls) :
          ~Construct(calls[i][1], calls[i][2]).ok
              => i = Len(calls) /\ Failed /\ IsDeserializationError(error[1])

\* {"Tup": {"ListNode": [1]}}: ListNode builds its object, Tup raises on it,
\* and the error shows the mapping {"ListNode": [1]}, not the object
C6_Witness ==
    /\ mode = "deserialize" /\ pc = "raised"
    /\ data = Tagged("Tup", Tagged("ListNode", L(<<I(1)>>)))
    /\ error[1].key = "Tup"
    /\ error[1].shown = <<Tagged("ListNode", L(<<I(1)>>))>>
    /\ Len(calls) = 2

-----------------------------------------------------------------------------
\* the entries of data that do not normalise
FailingEntries == {i \in 1..Len(Items(data)) : ~EntryCaseAt(i).ok}
FirstFailing == CHOOSE i \in FailingEntries : \A j \in FailingEntries : i <= j

(* C7: the normaliser returns only when every entry normalises, and then   *)
(* case i is the case of entry i; otherwise it raises the error of the     *)
(* lowest-index failing entry, which names the entry when the entry's      *)
(* shape is the fault, and returns nothing.                                *)
C7_FailFastInOrder ==
    Normalising =>
        /\ Returned =>
              /\ FailingEntries = {}
              /\ Kind(result[1]) = "list"
              /\ Len(Items(result[1])) = Len(Items(data))
              /\ \A i \in 1..Len(Items(data)) :
                     Items(result[1])[i] = EntryCaseAt(i).val
        /\ Failed =>
              /\ FailingEntries # {}
              /\ error = EntryCaseAt(FirstFailing).err
              /\ ~EntryFieldsAt(FirstFailing).ok
                     => error[1].shown = <<Items(data)[FirstFailing]>>
              /\ result = <<>>
        /\ (FailingEntries # {} /\ ~Failed) => idx <= FirstFailing /\ result = <<>>

\* a structured document with two malformed entries, {"input": 1} and then
\* [1], has failed with the error of the first
C7_Witness ==
    /\ InJsonLoop /\ pc = "raised"
    /\ data = L(<<D(<< <<"input", I(1)>> >>), L(<<I(1)>>)>>)
    /\ error = <<MissingKeys(D(<< <<"input", I(1)>> >>))>>

-----------------------------------------------------------------------------
(* C8: when the text is no structured document and the annotated parse     *)
(* fails, load_test_cases returns nothing and raises an invalid-format     *)
(* error that has the parse exception as cause or context and that         *)
(* describes the malformed block.                                          *)
C8_InvalidFormatErrorDescribesBlock ==
    (InPlain /\ Failed) =>
        /\ result = <<>>
        /\ error[1].msg = "Invalid file"
        /\ error[1].cause \o error[1].context # <<>>
        /\ error[1].shown # <<>>

-----------------------------------------------------------------------------
(* C9: on every path of load_test_cases the loader writes nothing to the   *)
(* console and exits from nowhere; only cli.main prints and exits.         *)
C9_LoaderNeverPrintsOrExits ==
    mode = "load" =>
        /\ stderr = 0
        /\ exitcode # <<>> => pc = "exited"

-----------------------------------------------------------------------------
(* C10: the annotated parser runs only after json.loads raised a syntax    *)
(* error on the text: once the text has parsed as a structured document,   *)
(* every later failure is raised and _plain_text_input never runs; the     *)
(* tuple-per-line parser _plain_text never runs.                           *)
C10_FallbackOnlyOnSyntaxError ==
    /\ "_plain_text" \notin ran
    /\ mode = "load" =>
          /\ (pc = "plain" \/ "_plain_text_input" \in ran)
                 => ~JsonLoads(content).ok /\ "_parse_json_cases" \notin ran
          /\ "_parse_json_cases" \in ran
                 => /\ JsonLoads(content).ok
                    /\ pc \in {"json_loop", "returned", "raised", "exited"}
          /\ ("_parse_json_cases" \in ran /\ pc # "json_loop"
                  /\ (Kind(data) # "list" \/ FailingEntries # {}))
                 => Failed /\ error[1].type = "ValueError"

\* a structured document that is not a list, or whose entry is malformed,
\* has been rejected without the annotated parser having run
C10_Witness ==
    /\ mode = "load" /\ pc = "raised"
    /\ "_parse_json_cases" \in ran
    /\ "_plain_text_input" \notin ran
    /\ error[1].type = "ValueError"
    /\ Kind(data) = "list"
====
